---- MODULE Spec2Model ----
(***************************************************************************)
(* The JNI wrappers of spokestack-android around the WebRTC voice activity *)
(* detector (spokestack/jni/vad.cpp), automatic gain control               *)
(* (spokestack/jni/agc.cpp), acoustic noise suppressor (jni/ans.cpp) and   *)
(* the libfvad trigger (jni/vad.cpp).                                      *)
(*                                                                         *)
(* The engines behind the wrappers are external libraries.  Every status   *)
(* an engine entry point returns, the address its allocator hands out, the *)
(* samples it writes into the frame and the level it writes through the    *)
(* outMicLevel pointer are choices of the environment.  What the wrappers  *)
(* do with them is translated from the source.                             *)
(***************************************************************************)
EXTENDS Integers, Sequences, FiniteSets

(* ------------------------------ bounds -------------------------------- *)

\* caller objects (one create per object, as the Java classes do)
MaxSlots == 2
\* addresses the engines' allocator can hand out
MaxAddr == 2
\* samples in the caller's direct buffer
BufLen == 2
\* distinct values the AGC engine writes through outMicLevel, from InitMicLevel up
NumLevels == 2
\* samples the noise suppressor reads and writes per call (its implicit frame)
AnsFrameLen == 1

(* ------------------------- program constants -------------------------- *)

\* static int32_t miclevel = 128;
InitMicLevel == 128
\* sizeof(int16_t)
SampleBytes == 2
\* the null pointer, the failure sentinel of create
NULL == 0

Slot == 1..MaxSlots
Addr == 1..MaxAddr
BufIdx == 0..(BufLen - 1)
\* the caller's direct buffers, one for every object it can own
Buffer == Slot
\* the places in memory a direct buffer can lie at: one for every buffer and a
\* spare one to move to
Region == 1..(MaxSlots + 1)
Sample == {0, 1}
Levels == InitMicLevel..(InitMicLevel + NumLevels - 1)
WebRtcKinds == {"VAD", "AGC", "ANS"}
Kinds == WebRtcKinds \cup {"FVAD"}
\* statuses an engine entry point of create can return: the wrappers test == 0 / != 0
Status == {-1, 0, 1}
\* what WebRtcVad_Process / WebRtcAgc_Process / fvad_process return
Classification == {-1, 0, 1}
\* what WebRtcNsx_Process returns
NsxStatus == {-1, 0}
\* lengths, in bytes, a caller passes with a buffer of BufLen samples: the whole
\* buffer, and the whole buffer less one byte (an odd length)
Lengths == {SampleBytes * BufLen - 1, SampleBytes * BufLen}
\* offsets, in bytes, a caller passes to the suppressor: every offset that
\* leaves room for a frame, odd ones included, and a few before the buffer
Offsets == (0 - SampleBytes - 1)..(SampleBytes * (BufLen - AnsFrameLen) + 1)

VARIABLES
  heap,        \* the engines' allocator: address -> engine instance
  slots,       \* the caller's objects: lifecycle state, component kind, handle
  miclevel,    \* agc.cpp's module variable
  mem,         \* memory: the samples at every place a buffer can lie at
  bufAddr,     \* where each of the caller's direct buffers lies at present
  soloLevel,   \* per object: the level its own engine wrote last (observer)
  doubleFree,  \* an engine free was invoked on an address that is not live
  crashed,     \* the process dereferenced a null engine pointer and ended
  run,         \* per object: its process call in flight on a thread of its own
  last         \* the caller's last step: a call across the JNI boundary or a
               \* move of a buffer (observer)

vars ==
  <<heap, slots, miclevel, mem, bufAddr, soloLevel, doubleFree, crashed, run, last>>

(* ------------------------------ helpers ------------------------------- *)

\* C's integer division of ints: the quotient truncates toward zero
CDiv(a, b) ==
  IF a >= 0 THEN a \div b ELSE 0 - ((0 - a) \div b)

\* a variant that divides the offset as the signed int it arrived as
UDivSampleSigned(offset) == CDiv(offset, SampleBytes)

\* offset / sizeof(int16_t): sizeof is a size_t, so the jint offset is converted
\* to size_t before the division.  With a 32-bit size_t (armeabi-v7a) a negative
\* offset is 2^32 + offset, and its half is 2^31 + floor(offset / 2), written
\* here in steps of 2^30 to stay inside TLC's 32-bit integers.  A 64-bit size_t
\* gives 2^63 + floor(offset / 2) and, after PtrAdvance, the same element.
UDivSample(offset) ==
  IF offset >= 0 THEN offset \div SampleBytes
  ELSE 2^30 + (2^30 + (offset \div SampleBytes))

\* frame += q: the address moves by q elements of SampleBytes bytes, modulo the
\* address space of 2^32 bytes = 2^31 elements; the result as a signed distance
\* in elements from the start of the buffer
PtrAdvance(q) ==
  IF q >= 2^30 THEN (q - 2^30) - 2^30 ELSE q

\* a variant that leaves the frame pointer at the start of the buffer
AnsFrameStartAtBase(offset) == 0

\* the element index, relative to the buffer base, the suppressor's frame
\* pointer ends up at
AnsFrameStart(offset) == PtrAdvance(UDivSample(offset))

\* a variant that hands the engine the byte count as the sample count
SampleCountBytes(length) == length

\* length / 2 of process: both operands are ints
SampleCount(length) == CDiv(length, SampleBytes)

(* --------------------------- engine memory ---------------------------- *)

NoEngine == [live |-> FALSE, kind |-> "none", inited |-> FALSE, configured |-> FALSE]

\* X_Create / fvad_new succeeding at address a: an instance that is allocated
\* and nothing more
Alloc(hp, a, k) ==
  [hp EXCEPT ![a] = [live |-> TRUE, kind |-> k, inited |-> FALSE, configured |-> FALSE]]

\* X_Init returning r
InitStep(hp, p, r) ==
  IF r = 0 THEN [hp EXCEPT ![p].inited = TRUE] ELSE hp

\* X_set_mode / X_set_config / X_set_policy returning r
ConfigStep(hp, p, r) ==
  IF r = 0 THEN [hp EXCEPT ![p].configured = TRUE] ELSE hp

\* a free that returns without releasing anything
EngineFreeNothing(hp, p) == hp

\* X_Free(p)
EngineFree(hp, p) ==
  IF p \in Addr THEN [hp EXCEPT ![p] = NoEngine] ELSE hp

\* X_Free(p) on an address that holds no live engine
FreesDead(hp, p) == p \in Addr /\ ~hp[p].live

LiveEngines(hp) == {a \in Addr : hp[a].live}
LiveCount(hp) == Cardinality(LiveEngines(hp))

(* ------------------------------- create ------------------------------- *)

\* one engine entry point invoked, and the status it returned (0 for the
\* void free functions)
Call(f, r) == [f |-> f, r |-> r]

\* a variant that takes only negative statuses for failures
CleanupNeededNegative(result) == result < 0

\* if (result != 0): something went wrong, clean up
CleanupNeeded(result) == result # 0

\* a variant that drops the pointer without freeing the engine
CleanupLeak(hp, p) ==
  [heap |-> hp, ptr |-> NULL, dead |-> FALSE]

\* a variant that frees the engine and still returns the pointer
CleanupKeepPtr(hp, p) ==
  [heap |-> EngineFree(hp, p), ptr |-> p, dead |-> FreesDead(hp, p)]

\* X_Free(p); p = NULL;
Cleanup(hp, p) ==
  [heap |-> EngineFree(hp, p), ptr |-> NULL, dead |-> FreesDead(hp, p)]

\* a variant whose clean-up sits outside the if (result == 0) block, so that it
\* also runs when the allocation itself failed
WebRtcCreateFreeOutside(hp, k, a, rc, ri, rs) ==
  IF rc # 0
  THEN [heap |-> hp, ptr |-> NULL,
        calls |-> <<Call("Create", rc), Call("Free", 0)>>, dead |-> FALSE]
  ELSE LET h2 == InitStep(Alloc(hp, a, k), a, ri)
           h3 == IF ri = 0 THEN ConfigStep(h2, a, rs) ELSE h2
           result == IF ri = 0 THEN rs ELSE ri
           calls == IF ri = 0
                    THEN <<Call("Create", rc), Call("Init", ri), Call("Config", rs)>>
                    ELSE <<Call("Create", rc), Call("Init", ri)>>
           c == Cleanup(h3, a)
       IN  IF CleanupNeeded(result)
           THEN [heap |-> c.heap, ptr |-> c.ptr,
                 calls |-> Append(calls, Call("Free", 0)), dead |-> c.dead]
           ELSE [heap |-> h3, ptr |-> a, calls |-> calls, dead |-> FALSE]

\* The body of create of the three WebRTC wrappers, given what the engine does:
\* X_Create returns rc (and on 0 stores address a through the out-pointer, which
\* otherwise keeps its NULL), X_Init would return ri and the configuration call
\* rs.  The result is the heap afterwards, the pointer returned, the engine
\* entry points invoked in order with their statuses, and whether a free hit an
\* address without a live engine.
WebRtcCreate(hp, k, a, rc, ri, rs) ==
  IF rc # 0
  THEN [heap |-> hp, ptr |-> NULL, calls |-> <<Call("Create", rc)>>,
        dead |-> FALSE]
  ELSE LET h1 == Alloc(hp, a, k)
           h2 == InitStep(h1, a, ri)
           h3 == IF ri = 0 THEN ConfigStep(h2, a, rs) ELSE h2
           result == IF ri = 0 THEN rs ELSE ri
           calls == IF ri = 0
                    THEN <<Call("Create", rc), Call("Init", ri), Call("Config", rs)>>
                    ELSE <<Call("Create", rc), Call("Init", ri)>>
           c == Cleanup(h3, a)
       IN  IF CleanupNeeded(result)
           THEN [heap |-> c.heap, ptr |-> c.ptr,
                 calls |-> Append(calls, Call("Free", 0)), dead |-> c.dead]
           ELSE [heap |-> h3, ptr |-> a, calls |-> calls, dead |-> FALSE]

\* The caller's object after create returned ptr: the Java classes keep the
\* value; a zero is the failure sentinel and no handle
AfterCreate(k, ptr) ==
  [st |-> IF ptr = NULL THEN "FAILED" ELSE "READY", kind |-> k, h |-> ptr]

NoCall ==
  [op |-> "none", kind |-> "none", slot |-> 0, calls |-> <<>>,
   ret |-> 0, liveBefore |-> 0, addr |-> 0, levelIn |-> 0, soloIn |-> 0,
   lo |-> 0, n |-> 0, arg |-> 0, buf |-> 0, base |-> 0, movedFrom |-> 0,
   over |-> 0]

\* objects are constructed in order (which object is which does not matter)
CanCreate(s) ==
  /\ ~crashed
  /\ slots[s].st = "UNINITIALIZED"
  /\ \A t \in Slot : t < s => slots[t].st # "UNINITIALIZED"

\* the address the allocator hands out when X_Create returns rc: a free one on
\* success (none left: the allocation fails)
AllocChoices(rc) ==
  IF rc = 0 THEN Addr \ LiveEngines(heap) ELSE {NULL}

WebRtcCreateCall(s, k) ==
  /\ CanCreate(s)
  /\ \E rc \in Status, ri \in Status, rs \in Status :
       \E a \in AllocChoices(rc) :
         LET c == WebRtcCreate(heap, k, a, rc, ri, rs)
         IN  /\ heap' = c.heap
             /\ slots' = [slots EXCEPT ![s] = AfterCreate(k, c.ptr)]
             /\ doubleFree' = (doubleFree \/ c.dead)
             /\ last' = [NoCall EXCEPT !.op = "create", !.kind = k, !.slot = s,
                           !.calls = c.calls,
                           !.ret = c.ptr, !.liveBefore = LiveCount(heap),
                           !.addr = a]
  /\ UNCHANGED <<miclevel, mem, bufAddr, soloLevel, crashed, run>>

VadCreate(s) == WebRtcCreateCall(s, "VAD")
AgcCreate(s) == WebRtcCreateCall(s, "AGC")
AnsCreate(s) == WebRtcCreateCall(s, "ANS")

\* VADTrigger_create: fvad_new() either returns an instance (initialised by
\* fvad_new itself) or NULL; the two setters are then called on whatever it
\* returned, their statuses rm and rr are dropped, and the pointer is returned.
\* Called on NULL, fvad_set_mode dereferences the null pointer: the process ends.
FvadCreate(hp, a, rm, rr) ==
  IF a = NULL
  THEN [heap |-> hp, ptr |-> NULL,
        calls |-> <<Call("fvad_new", NULL), Call("fvad_set_mode", -1)>>,
        crash |-> TRUE]
  ELSE [heap |-> ConfigStep(InitStep(Alloc(hp, a, "FVAD"), a, 0), a,
                            IF rm = 0 THEN rr ELSE rm),
        ptr |-> a,
        calls |-> <<Call("fvad_new", a), Call("fvad_set_mode", rm),
                    Call("fvad_set_sample_rate", rr)>>,
        crash |-> FALSE]

FvadCreateCall(s) ==
  /\ CanCreate(s)
  /\ \E rm \in {-1, 0}, rr \in {-1, 0} :
       \E a \in (Addr \ LiveEngines(heap)) \cup {NULL} :
         LET c == FvadCreate(heap, a, rm, rr)
         IN  /\ heap' = c.heap
             /\ crashed' = c.crash
             /\ slots' = IF c.crash THEN slots
                         ELSE [slots EXCEPT ![s] = AfterCreate("FVAD", c.ptr)]
             /\ last' = [NoCall EXCEPT !.op = "create", !.kind = "FVAD",
                           !.slot = s, !.calls = c.calls,
                           !.ret = c.ptr, !.liveBefore = LiveCount(heap),
                           !.addr = a]
  /\ UNCHANGED <<miclevel, mem, bufAddr, soloLevel, doubleFree, run>>

(* ------------------------------ destroy ------------------------------- *)

\* a variant of destroy that releases every engine there is
DestroyEveryEngine(hp, h) == [a \in Addr |-> NoEngine]

\* a variant of destroy that forgets the engine
DestroyLeak(hp, h) == hp

\* X_Free((X*)handle) / fvad_free((Fvad*)handle)
DestroyEngine(hp, h) == EngineFree(hp, h)

\* The caller destroys an object it created, once; a sentinel is never
\* destroyed (the discipline the wrappers rely on).
DestroyCall(s, k) ==
  /\ ~crashed
  /\ slots[s].st = "READY"
  /\ slots[s].kind = k
  /\ heap' = DestroyEngine(heap, slots[s].h)
  /\ doubleFree' = (doubleFree \/ FreesDead(heap, slots[s].h))
  /\ slots' = [slots EXCEPT ![s].st = "RELEASED"]
  /\ soloLevel' = [soloLevel EXCEPT ![s] = InitMicLevel]
  /\ last' = [NoCall EXCEPT !.op = "destroy", !.kind = k, !.slot = s,
                !.calls = <<Call("Free", 0)>>,
                !.liveBefore = LiveCount(heap), !.addr = slots[s].h]
  /\ UNCHANGED <<miclevel, mem, bufAddr, crashed, run>>

VadDestroy(s) == DestroyCall(s, "VAD")
AgcDestroy(s) == DestroyCall(s, "AGC")
AnsDestroy(s) == DestroyCall(s, "ANS")
FvadDestroy(s) == DestroyCall(s, "FVAD")

(* ------------------------------ process ------------------------------- *)

CanProcess(s, k) ==
  /\ ~crashed
  /\ slots[s].st = "READY"
  /\ slots[s].kind = k

\* a variant that turns the engine's value into a flag
VadReturnFlag(engineResult) == IF engineResult = 0 THEN 0 ELSE 1

\* return WebRtcVad_Process(vad, rate, frame, length / 2) and
\* return fvad_process(vad, frame, length / 2): the engine's value as it is.
\* The rate is handed on untouched; what the engine makes of it is part of
\* the engine's answer.
VadReturn(engineResult) == engineResult

\* the samples the engine may write, given the frame start and the sample count
\* it works on, as far as they lie in the caller's buffer
Touched(lo, n) == {i \in BufIdx : lo <= i /\ i < lo + n}

\* a variant that keeps working at the address the previous process call
\* resolved
FrameAddressKept(b) ==
  IF last.op \in {"process", "relocate"} /\ last.base # 0 THEN last.base
  ELSE bufAddr[b]

\* env->GetDirectBufferAddress(buffer): where the buffer passed in this call
\* lies now
GetDirectBufferAddress(b) == bufAddr[b]

\* the memories an engine can leave behind when it writes the samples in W of
\* the frame at address base
Written(base, W) ==
  {[mem EXCEPT ![base] = f] :
     f \in {g \in [BufIdx -> Sample] : \A i \in BufIdx \ W : g[i] = mem[base][i]}}

\* for a process call on object s with buffer b that follows a relocation of b
\* after a process call on s with b: the address that earlier call had
\* resolved (observer)
MovedFrom(s, b) ==
  IF last.op = "relocate" /\ last.slot = s /\ last.buf = b THEN last.base ELSE 0

VadProcess(s, b) ==
  /\ CanProcess(s, "VAD")
  /\ \E length \in Lengths, r \in Classification :
       last' = [NoCall EXCEPT !.op = "process", !.kind = "VAD", !.slot = s,
                  !.calls = <<Call("Process", r)>>,
                  !.ret = VadReturn(r), !.liveBefore = LiveCount(heap),
                  !.addr = slots[s].h, !.lo = 0, !.n = SampleCount(length),
                  !.arg = length, !.buf = b,
                  !.base = GetDirectBufferAddress(b),
                  !.movedFrom = MovedFrom(s, b)]
  /\ UNCHANGED <<heap, slots, miclevel, mem, bufAddr, soloLevel, doubleFree, crashed, run>>

FvadProcess(s, b) ==
  /\ CanProcess(s, "FVAD")
  /\ \E length \in Lengths, r \in Classification :
       last' = [NoCall EXCEPT !.op = "process", !.kind = "FVAD", !.slot = s,
                  !.calls = <<Call("Process", r)>>,
                  !.ret = VadReturn(r), !.liveBefore = LiveCount(heap),
                  !.addr = slots[s].h, !.lo = 0, !.n = SampleCount(length),
                  !.arg = length, !.buf = b,
                  !.base = GetDirectBufferAddress(b),
                  !.movedFrom = MovedFrom(s, b)]
  /\ UNCHANGED <<heap, slots, miclevel, mem, bufAddr, soloLevel, doubleFree, crashed, run>>

\* a variant in which every engine is handed the level it wrote itself
AgcLevelInOwn(s) == soloLevel[s]

\* The level handed to WebRtcAgc_Process by value (inMicLevel)
AgcLevelIn(s) == miclevel

\* AutomaticGainControl_process: the engine gets the frame as input and output,
\* length / 2 samples, miclevel by value and &miclevel as outMicLevel.  It
\* returns r, may have written any of the samples it was given and has left
\* any level, the old one included, behind the pointer, whatever it returns.
AgcProcess(s, b) ==
  /\ CanProcess(s, "AGC")
  /\ \E length \in Lengths, r \in Classification, lvl \in Levels :
       /\ mem' \in Written(GetDirectBufferAddress(b),
                           Touched(0, SampleCount(length)))
       /\ miclevel' = lvl
       /\ soloLevel' = [soloLevel EXCEPT ![s] = lvl]
       /\ last' = [NoCall EXCEPT !.op = "process", !.kind = "AGC", !.slot = s,
                     !.calls = <<Call("Process", r)>>, !.ret = r,
                     !.liveBefore = LiveCount(heap), !.addr = slots[s].h,
                     !.levelIn = AgcLevelIn(s), !.soloIn = soloLevel[s],
                     !.lo = 0, !.n = SampleCount(length), !.arg = length,
                     !.buf = b, !.base = GetDirectBufferAddress(b),
                     !.movedFrom = MovedFrom(s, b)]
  /\ UNCHANGED <<heap, slots, bufAddr, doubleFree, crashed, run>>

\* AcousticNoiseSuppressor_process: frame += offset / sizeof(int16_t), then the
\* engine reads and writes its frame of AnsFrameLen samples from there
AnsProcess(s, b) ==
  /\ CanProcess(s, "ANS")
  /\ \E offset \in Offsets, r \in NsxStatus :
       /\ mem' \in Written(GetDirectBufferAddress(b),
                           Touched(AnsFrameStart(offset), AnsFrameLen))
       /\ last' = [NoCall EXCEPT !.op = "process", !.kind = "ANS", !.slot = s,
                     !.calls = <<Call("Process", r)>>, !.ret = r,
                     !.liveBefore = LiveCount(heap), !.addr = slots[s].h,
                     !.lo = AnsFrameStart(offset), !.n = AnsFrameLen,
                     !.arg = offset, !.buf = b,
                     !.base = GetDirectBufferAddress(b),
                     !.movedFrom = MovedFrom(s, b)]
  /\ UNCHANGED <<heap, slots, miclevel, bufAddr, soloLevel, doubleFree, crashed, run>>

(* ------------------------ process, step by step ----------------------- *)

\* no process call in flight
Idle ==
  [pc |-> "idle", kind |-> "none", inst |-> NULL, base |-> 0, lo |-> 0, n |-> 0,
   arg |-> 0, levelIn |-> 0, statics |-> {}]

\* a variant in which every wrapper works on the level variable
StaticsUsedByAll(k) == {"miclevel"}

\* the file-scope variables the process function of component k mentions:
\* agc.cpp has miclevel, vad.cpp and ans.cpp declare none
StaticsUsed(k) == IF k = "AGC" THEN {"miclevel"} ELSE {}

\* what the caller passes besides the buffer: a length for VAD and AGC, an
\* offset for ANS
ProcessArgs(k) == IF k = "ANS" THEN Offsets ELSE Lengths

\* what the engine of component k can return
ProcessResults(k) == IF k = "ANS" THEN NsxStatus ELSE Classification

\* The thread of object s enters process of component k with its own buffer:
\* the wrapper resolves the frame and evaluates the engine's arguments, for
\* AGC the level by value, and the engine is running from here on.  Nothing
\* is locked.
ProcessEnter(s, k) ==
  /\ CanProcess(s, k)
  /\ run[s].pc = "idle"
  /\ \E x \in ProcessArgs(k) :
       run' = [run EXCEPT ![s] =
                 [pc |-> "engine", kind |-> k, inst |-> slots[s].h,
                  base |-> GetDirectBufferAddress(s),
                  lo |-> IF k = "ANS" THEN AnsFrameStart(x) ELSE 0,
                  n |-> IF k = "ANS" THEN AnsFrameLen ELSE SampleCount(x),
                  arg |-> x,
                  levelIn |-> IF "miclevel" \in StaticsUsed(k)
                              THEN AgcLevelIn(s) ELSE 0,
                  statics |-> StaticsUsed(k)]]
  /\ UNCHANGED <<heap, slots, miclevel, mem, bufAddr, soloLevel, doubleFree,
                 crashed, last>>

\* The engine of the call in flight on object s finishes: it has written what
\* it writes (AGC and ANS samples of their frame, AGC a level through
\* outMicLevel) and the wrapper returns its status.
ProcessExit(s, k) ==
  /\ ~crashed
  /\ run[s].pc = "engine"
  /\ run[s].kind = k
  /\ \E r \in ProcessResults(k), lvl \in Levels :
       /\ mem' \in IF k = "VAD" THEN {mem}
                   ELSE Written(run[s].base, Touched(run[s].lo, run[s].n))
       /\ miclevel' = IF "miclevel" \in run[s].statics THEN lvl ELSE miclevel
       /\ soloLevel' = IF "miclevel" \in run[s].statics
                       THEN [soloLevel EXCEPT ![s] = lvl] ELSE soloLevel
       /\ last' = [NoCall EXCEPT !.op = "process", !.kind = k, !.slot = s,
                     !.calls = <<Call("Process", r)>>, !.ret = r,
                     !.liveBefore = LiveCount(heap), !.addr = run[s].inst,
                     !.levelIn = run[s].levelIn,
                     !.soloIn = IF k = "AGC" THEN soloLevel[s] ELSE 0,
                     !.lo = run[s].lo, !.n = run[s].n, !.arg = run[s].arg,
                     !.buf = s, !.base = run[s].base,
                     !.over = IF "miclevel" \in run[s].statics
                              THEN miclevel ELSE 0]
  /\ run' = [run EXCEPT ![s] = Idle]
  /\ UNCHANGED <<heap, slots, bufAddr, doubleFree, crashed>>

VadEnter(s) == ProcessEnter(s, "VAD")
AgcEnter(s) == ProcessEnter(s, "AGC")
AnsEnter(s) == ProcessEnter(s, "ANS")
VadExit(s) == ProcessExit(s, "VAD")
AgcExit(s) == ProcessExit(s, "AGC")
AnsExit(s) == ProcessExit(s, "ANS")

(* ----------------------------- the caller ----------------------------- *)

\* the buffer of a caller that runs all its components on one buffer
MainBuffer == 1

\* The caller replaces buffer b by one at another address (a reallocation, a
\* fresh buffer for the same stream): the samples move along and the old place
\* is given back, which the model shows as zeroes.  No wrapper is involved.
Relocate(b) ==
  /\ ~crashed
  /\ \E r \in Region \ {bufAddr[c] : c \in Buffer} :
       /\ mem' = [mem EXCEPT ![r] = mem[bufAddr[b]],
                             ![bufAddr[b]] = [i \in BufIdx |-> 0]]
       /\ bufAddr' = [bufAddr EXCEPT ![b] = r]
  /\ last' = IF last.op \in {"process", "relocate"} /\ last.buf = b
             THEN [NoCall EXCEPT !.op = "relocate", !.buf = b,
                     !.slot = last.slot, !.base = last.base]
             ELSE [NoCall EXCEPT !.op = "relocate", !.buf = b]
  /\ UNCHANGED <<heap, slots, miclevel, soloLevel, doubleFree, crashed, run>>

(* --------------------------- specification ---------------------------- *)

\* Nothing has been created; a direct buffer starts out zeroed.
Init ==
  /\ heap = [a \in Addr |-> NoEngine]
  /\ slots = [s \in Slot |-> [st |-> "UNINITIALIZED", kind |-> "none", h |-> NULL]]
  /\ miclevel = InitMicLevel
  /\ mem = [r \in Region |-> [i \in BufIdx |-> 0]]
  /\ bufAddr = [b \in Buffer |-> b]
  /\ soloLevel = [s \in Slot |-> InitMicLevel]
  /\ doubleFree = FALSE
  /\ crashed = FALSE
  /\ run = [s \in Slot |-> Idle]
  /\ last = NoCall

Next ==
  \/ \E s \in Slot : VadCreate(s)
  \/ \E s \in Slot : AgcCreate(s)
  \/ \E s \in Slot : AnsCreate(s)
  \/ \E s \in Slot : FvadCreateCall(s)
  \/ \E s \in Slot : VadProcess(s, MainBuffer)
  \/ \E s \in Slot : AgcProcess(s, MainBuffer)
  \/ \E s \in Slot : AnsProcess(s, MainBuffer)
  \/ \E s \in Slot : FvadProcess(s, MainBuffer)
  \/ \E s \in Slot : VadDestroy(s)
  \/ \E s \in Slot : AgcDestroy(s)
  \/ \E s \in Slot : AnsDestroy(s)
  \/ \E s \in Slot : FvadDestroy(s)

Spec == Init /\ [][Next]_vars

\* The callers that create and destroy components of every kind and run the
\* two detectors, which leave the buffer and the level alone
NextLife ==
  \/ \E s \in Slot : VadCreate(s)
  \/ \E s \in Slot : AgcCreate(s)
  \/ \E s \in Slot : AnsCreate(s)
  \/ \E s \in Slot : FvadCreateCall(s)
  \/ \E s \in Slot : VadProcess(s, MainBuffer)
  \/ \E s \in Slot : FvadProcess(s, MainBuffer)
  \/ \E s \in Slot : VadDestroy(s)
  \/ \E s \in Slot : AgcDestroy(s)
  \/ \E s \in Slot : AnsDestroy(s)
  \/ \E s \in Slot : FvadDestroy(s)

SpecLife == Init /\ [][NextLife]_vars

\* The callers that use noise suppressors only
NextAns ==
  \/ \E s \in Slot : AnsCreate(s)
  \/ \E s \in Slot : AnsProcess(s, MainBuffer)
  \/ \E s \in Slot : AnsDestroy(s)

SpecAns == Init /\ [][NextAns]_vars

\* The callers that use gain controls only
NextAgc ==
  \/ \E s \in Slot : AgcCreate(s)
  \/ \E s \in Slot : AgcProcess(s, MainBuffer)
  \/ \E s \in Slot : AgcDestroy(s)

SpecAgc == Init /\ [][NextAgc]_vars

\* The callers that run process of the WebRTC components on one thread per
\* object, each thread with its own handle and its own buffer
NextThreads ==
  \/ \E s \in Slot : VadCreate(s)
  \/ \E s \in Slot : AgcCreate(s)
  \/ \E s \in Slot : AnsCreate(s)
  \/ \E s \in Slot : VadEnter(s)
  \/ \E s \in Slot : AgcEnter(s)
  \/ \E s \in Slot : AnsEnter(s)
  \/ \E s \in Slot : VadExit(s)
  \/ \E s \in Slot : AgcExit(s)
  \/ \E s \in Slot : AnsExit(s)

SpecThreads == Init /\ [][NextThreads]_vars

\* The callers that use WebRTC detectors and noise suppressors side by side
NextVadAns ==
  \/ \E s \in Slot : VadCreate(s)
  \/ \E s \in Slot : AnsCreate(s)
  \/ \E s \in Slot : VadProcess(s, MainBuffer)
  \/ \E s \in Slot : AnsProcess(s, MainBuffer)
  \/ \E s \in Slot : VadDestroy(s)
  \/ \E s \in Slot : AnsDestroy(s)

SpecVadAns == Init /\ [][NextVadAns]_vars

\* The callers that run components of every kind on one buffer and move that
\* buffer between calls
NextBuf ==
  \/ \E s \in Slot : VadCreate(s)
  \/ \E s \in Slot : AgcCreate(s)
  \/ \E s \in Slot : AnsCreate(s)
  \/ \E s \in Slot : FvadCreateCall(s)
  \/ \E s \in Slot : VadProcess(s, MainBuffer)
  \/ \E s \in Slot : AgcProcess(s, MainBuffer)
  \/ \E s \in Slot : AnsProcess(s, MainBuffer)
  \/ \E s \in Slot : FvadProcess(s, MainBuffer)
  \/ Relocate(MainBuffer)

SpecBuf == Init /\ [][NextBuf]_vars

(* ----------------------- reading the last call ------------------------ *)

\* the last call invoked engine entry point f
Invoked(f) == \E i \in DOMAIN last.calls : last.calls[i].f = f

\* the last call invoked engine entry point f and it returned 0
Succeeded(f) == \E i \in DOMAIN last.calls : last.calls[i].f = f /\ last.calls[i].r = 0

\* how often the last call invoked engine entry point f
Invocations(f) == Cardinality({i \in DOMAIN last.calls : last.calls[i].f = f})

ReadySlots == {s \in Slot : slots[s].st = "READY"}

(* ------------------------------- claims ------------------------------- *)

\* C1: create of the WebRTC-backed VAD, AGC and ANS returns a non-zero handle
\* if and only if the engine's allocate, initialize and configure steps all
\* returned 0; otherwise it returns the zero sentinel.  A handle that is
\* returned refers to a live engine of that component that is initialized and
\* configured.
C1_CreateAllOrNothing ==
  (last.op = "create" /\ last.kind \in WebRtcKinds) =>
    /\ (last.ret # NULL) <=>
         (Succeeded("Create") /\ Succeeded("Init") /\ Succeeded("Config"))
    /\ last.ret # NULL =>
         /\ last.ret \in Addr
         /\ heap[last.ret] = [live |-> TRUE, kind |-> last.kind,
                              inited |-> TRUE, configured |-> TRUE]
         /\ slots[last.slot] = [st |-> "READY", kind |-> last.kind, h |-> last.ret]
    /\ last.ret = NULL => slots[last.slot].st = "FAILED"

\* C1 witness: an AGC create whose engine allocated and initialized but whose
\* configuration step returned a positive status, and which returned the sentinel
C1_Witness ==
  /\ last.op = "create" /\ last.kind = "AGC"
  /\ Succeeded("Create") /\ Succeeded("Init")
  /\ \E i \in DOMAIN last.calls : last.calls[i] = Call("Config", 1)
  /\ last.ret = NULL

\* C2: when create returns the sentinel after the engine was allocated (the
\* initialization or the configuration step failed), that engine has been
\* freed: as many engines are live after the call as before it, and none is
\* live at the address that had been allocated.
C2_FailedCreateFreesEngine ==
  (/\ last.op = "create" /\ last.kind \in WebRtcKinds
   /\ last.ret = NULL /\ Succeeded("Create")) =>
    /\ LiveCount(heap) = last.liveBefore
    /\ ~heap[last.addr].live
    /\ Invocations("Free") = 1

\* C2 witness: an ANS create that failed in its initialization step while
\* another engine was live
C2_Witness ==
  /\ last.op = "create" /\ last.kind = "ANS" /\ last.ret = NULL
  /\ Succeeded("Create") /\ Invoked("Init") /\ ~Succeeded("Init")
  /\ last.liveBefore = 1

\* C3: at every point the live engines are exactly the engines of the handles
\* created and not yet destroyed, one engine per handle; once every handle has
\* been destroyed no engine remains allocated.
C3_LiveEnginesAreOpenHandles ==
  /\ LiveCount(heap) = Cardinality(ReadySlots)
  /\ \A s \in ReadySlots :
       /\ slots[s].h \in Addr
       /\ heap[slots[s].h].live
       /\ heap[slots[s].h].kind = slots[s].kind
  /\ \A s, t \in ReadySlots : s # t => slots[s].h # slots[t].h

\* C3 witness: the last of several handles has just been destroyed and no
\* engine is left
C3_Witness ==
  /\ last.op = "destroy"
  /\ Cardinality({s \in Slot : slots[s].st = "RELEASED"}) >= 2
  /\ ReadySlots = {}
  /\ LiveCount(heap) = 0

\* C4: with one destroy per created handle and none of a sentinel, no engine
\* free is ever invoked on an address whose engine has already been freed,
\* the frees of create's own rollback included.
C4_NoDoubleFree == ~doubleFree

\* C4 witness: a handle has been destroyed after an earlier create had rolled
\* back its engine
C4_Witness ==
  /\ last.op = "destroy"
  /\ \E s \in Slot : slots[s].st = "FAILED" /\ s < last.slot
  /\ ~doubleFree

\* C5: every AGC process call hands its engine the level that the same
\* handle's engine wrote during the handle's previous process call (128 on its
\* first), which is what the handle would see when running alone: other AGC
\* handles do not interfere.
C5_AgcNonInterference ==
  (last.op = "process" /\ last.kind = "AGC") => last.levelIn = last.soloIn

\* C6: a process call that returned a negative status leaves the handle READY
\* and the state the wrapper holds, the AGC level estimate, as it was before
\* the call.
C6_FailedProcessLeavesNoTrace ==
  (last.op = "process" /\ last.ret < 0) =>
    /\ slots[last.slot].st = "READY"
    /\ last.kind = "AGC" => miclevel = last.levelIn

\* C7: create of the fixed-rate VADTrigger is all-or-nothing like the one of
\* the VoiceActivityDetector: it returns a handle only if allocation, mode
\* setting and rate setting all succeeded, leaves no engine allocated
\* otherwise, and calls no setter on an engine that failed to allocate.
C7_FvadCreateAllOrNothing ==
  (last.op = "create" /\ last.kind = "FVAD") =>
    /\ (last.ret # NULL) <=>
         (/\ \E i \in DOMAIN last.calls :
                last.calls[i].f = "fvad_new" /\ last.calls[i].r # NULL
          /\ Succeeded("fvad_set_mode")
          /\ Succeeded("fvad_set_sample_rate"))
    /\ last.ret = NULL => LiveCount(heap) = last.liveBefore
    /\ (\E i \in DOMAIN last.calls : last.calls[i] = Call("fvad_new", NULL)) =>
         ~Invoked("fvad_set_mode") /\ ~Invoked("fvad_set_sample_rate")
    /\ ~crashed

\* C8 (as amended): a handle of VAD, AGC or ANS goes UNINITIALIZED -> READY when
\* create succeeds, stays READY with its engine live through every call that is
\* not its own destroy, and goes READY -> RELEASED with its engine freed on
\* destroy; a failed create leaves the sentinel and no handle; a released
\* handle is never changed again, and its value comes to refer to a live
\* engine again only by a later create returning that same value.
C8_LifecycleWithReuse ==
  [][\A s \in Slot :
       (slots[s].kind \in WebRtcKinds \/ slots'[s].kind \in WebRtcKinds) =>
         /\ slots[s].st = "UNINITIALIZED" =>
              \/ slots'[s] = slots[s]
              \/ /\ slots'[s].st = "READY"
                 /\ last'.op = "create" /\ last'.slot = s
                 /\ last'.ret = slots'[s].h
                 /\ slots'[s].h \in Addr
                 /\ heap'[slots'[s].h].live
              \/ /\ slots'[s].st = "FAILED"
                 /\ slots'[s].h = NULL
                 /\ last'.op = "create" /\ last'.slot = s /\ last'.ret = NULL
         /\ slots[s].st = "READY" =>
              \/ slots'[s] = slots[s] /\ heap'[slots[s].h].live
              \/ /\ slots'[s] = [slots[s] EXCEPT !.st = "RELEASED"]
                 /\ last'.op = "destroy" /\ last'.slot = s
                 /\ ~heap'[slots[s].h].live
         /\ (slots[s].st = "READY" /\ last'.op = "process" /\ last'.slot = s) =>
              slots'[s] = slots[s]
         /\ slots[s].st = "FAILED" => slots'[s] = slots[s]
         /\ slots[s].st = "RELEASED" =>
              /\ slots'[s] = slots[s]
              /\ (~heap[slots[s].h].live /\ heap'[slots[s].h].live) =>
                   (last'.op = "create" /\ last'.ret = slots[s].h)
    ]_vars

\* C8 witness: a create has just returned the value of a released handle for a
\* new engine
C8_Witness ==
  /\ last.op = "create" /\ last.kind \in WebRtcKinds /\ last.ret # NULL
  /\ \E s \in Slot :
       /\ slots[s].st = "RELEASED" /\ slots[s].kind \in WebRtcKinds
       /\ slots[s].h = last.ret
       /\ heap[slots[s].h].live

\* C8 as stated: once a handle has been destroyed its value never refers to a
\* live engine again, whatever the core is asked to do afterwards.
C8_ReleasedNeverLiveAgain ==
  \A s \in Slot :
    (slots[s].st = "RELEASED" /\ slots[s].kind \in WebRtcKinds) =>
      ~heap[slots[s].h].live

\* C9: an ANS process call at byte offset b leaves every sample of the caller's
\* buffer before index b / 2 as it was, and for an offset inside the buffer
\* the frame the engine works on starts at index b / 2.
C9_AnsOffsetRespected ==
  [][(last'.op = "process" /\ last'.kind = "ANS") =>
       /\ \A i \in BufIdx :
            i < CDiv(last'.arg, SampleBytes) =>
              mem'[last'.base][i] = mem[last'.base][i]
       /\ last'.arg >= 0 => last'.lo = CDiv(last'.arg, SampleBytes)
    ]_vars

\* C9 witness: an ANS process call at the offset of the second sample has just
\* returned, and the first sample still holds what an earlier call at offset 0
\* wrote there
C9_Witness ==
  /\ last.op = "process" /\ last.kind = "ANS"
  /\ last.arg = SampleBytes /\ last.lo = 1
  /\ mem[last.base][0] = 1

\* C10: process of both VAD wrappers returns one of 1, 0 and -1, namely the
\* value the engine returned, unchanged; the handle stays READY with its engine
\* live and the process keeps running, also when the engine returned -1.
C10_VadProcessResult ==
  (last.op = "process" /\ last.kind \in {"VAD", "FVAD"}) =>
    /\ last.ret \in {1, 0, -1}
    /\ last.calls = <<Call("Process", last.ret)>>
    /\ slots[last.slot].st = "READY"
    /\ heap[slots[last.slot].h].live
    /\ ~crashed

\* C10 witness: the engine of a VoiceActivityDetector has just rejected a frame
C10_Witness ==
  /\ last.op = "process" /\ last.kind = "VAD"
  /\ last.ret = -1
  /\ slots[last.slot].st = "READY"

\* the engine entry points the last call invoked, in order
CallNames == [i \in DOMAIN last.calls |-> last.calls[i].f]

\* the i-th engine entry point the last call invoked returned 0
ReturnedZero(i) == last.calls[i].r = 0

\* C13: within create of the WebRTC-backed VAD, AGC and ANS the engine sub-steps
\* run in the order allocate, initialize, configure, each only after every
\* earlier one returned 0; the engine free is invoked exactly once, and last,
\* when initialize or configure failed, and not at all when allocate failed or
\* when all three succeeded.
C13_CreateSubStepOrder ==
  (last.op = "create" /\ last.kind \in WebRtcKinds) =>
    LET steps == SelectSeq(last.calls, LAMBDA c : c.f # "Free")
        names == [i \in DOMAIN steps |-> steps[i].f]
        failed == \E i \in DOMAIN steps : steps[i].r # 0
    IN  /\ names \in {<<"Create">>, <<"Create", "Init">>, <<"Create", "Init", "Config">>}
        /\ \A i \in DOMAIN steps : i < Len(steps) => steps[i].r = 0
        /\ (Len(steps) < 3) => failed
        /\ Invocations("Free") =
             (IF Succeeded("Create") /\ failed THEN 1 ELSE 0)
        /\ Invoked("Free") => CallNames[Len(last.calls)] = "Free"

\* a create whose initialize succeeded and whose configure failed has freed the
\* engine after the three sub-steps
C13_Witness ==
  /\ last.op = "create"
  /\ last.kind \in WebRtcKinds
  /\ CallNames = <<"Create", "Init", "Config", "Free">>
  /\ ReturnedZero(1) /\ ReturnedZero(2) /\ ~ReturnedZero(3)

\* C14 as stated: in ANS process the first sample the engine is given lies
\* offsetBytes / 2 elements from the start of the caller's buffer, the
\* quotient being that of the signed division, for every offset, odd and
\* negative ones included.
C14_SignedQuotient ==
  (last.op = "process" /\ last.kind = "ANS") =>
    last.lo = CDiv(last.arg, SampleBytes)

\* C14 as amended: the division is carried out on the offset converted to the
\* unsigned size_t.  For an offset >= 0 the first sample lies offsetBytes / 2
\* elements from the start of the buffer; for a negative offset the quotient
\* wraps at the pointer width and the first sample lies floor(offsetBytes / 2)
\* elements from the start, which is the signed quotient for an even offset
\* and one element below it for an odd one.
C14_UnsignedQuotient ==
  (last.op = "process" /\ last.kind = "ANS") =>
    /\ last.arg >= 0 => last.lo = CDiv(last.arg, SampleBytes)
    /\ (last.arg < 0 /\ last.arg % SampleBytes = 0) =>
         last.lo = CDiv(last.arg, SampleBytes)
    /\ (last.arg < 0 /\ last.arg % SampleBytes # 0) =>
         last.lo = CDiv(last.arg, SampleBytes) - 1

\* C14 witness: an ANS process call at byte offset -1 has handed the engine a
\* frame that starts one element before the buffer, where the signed quotient
\* is 0
C14_Witness ==
  /\ last.op = "process" /\ last.kind = "ANS"
  /\ last.arg = -1
  /\ last.lo = -1
  /\ CDiv(last.arg, SampleBytes) = 0

\* the step is an AGC process call
AgcProcessStep == last'.op = "process" /\ last'.kind = "AGC"

\* C17: the AGC level is one process-wide value that starts at 128 and that
\* only AGC process calls change.  Create and destroy leave it as it is, and
\* every AGC process call hands the engine the level the variable holds, which
\* is what the engine wrote during the most recent AGC process call on any
\* handle (128 before the first); a new handle gets no fresh level.
C17_LevelIsProcessWide ==
  /\ miclevel = InitMicLevel
  /\ [][/\ AgcProcessStep => last'.levelIn = miclevel
        /\ ~AgcProcessStep => miclevel' = miclevel
      ]_vars

\* C17 witness: the first process call on a second AGC handle, whose own engine
\* has written no level yet, was handed the level that the engine of the first
\* handle, destroyed since, had left behind
C17_Witness ==
  /\ last.op = "process" /\ last.kind = "AGC"
  /\ last.levelIn = InitMicLevel + 1
  /\ last.soloIn = InitMicLevel
  /\ \E t \in Slot \ {last.slot} :
       slots[t].kind = "AGC" /\ slots[t].st = "RELEASED"

\* C16: every process call of every component works at the address the buffer
\* passed in that call lies at when the call is made, and nothing of an earlier
\* call's address or samples is kept: the call writes no memory outside that
\* buffer, also after the caller moved the buffer between two calls on the
\* same handle; the two detectors write nothing, and AGC and ANS write only
\* samples of the frame they were given to read (in place).  The call does
\* not move the buffer.
C16_AddressResolvedPerCall ==
  [][last'.op = "process" =>
       /\ last'.base = bufAddr[last'.buf]
       /\ \A r \in Region \ {bufAddr[last'.buf]} : mem'[r] = mem[r]
       /\ \A i \in BufIdx \ Touched(last'.lo, last'.n) :
            mem'[last'.base][i] = mem[last'.base][i]
       /\ last'.kind \in {"VAD", "FVAD"} => mem' = mem
       /\ bufAddr' = bufAddr
    ]_vars

\* C16 witness: a process call on an AGC handle has written a sample of the
\* buffer at its new address, after the caller moved the buffer away from the
\* address the call before on the same handle had worked at; nothing is
\* written at the old address
C16_Witness ==
  /\ last.op = "process" /\ last.kind = "AGC"
  /\ last.movedFrom \in Region
  /\ last.base # last.movedFrom
  /\ last.base = bufAddr[last.buf]
  /\ \E i \in BufIdx : mem[last.base][i] = 1
  /\ \A i \in BufIdx : mem[last.movedFrom][i] = 0

\* C15: process of both VAD wrappers and of AGC gives the engine the frame at
\* the buffer's first sample and a sample count of lengthBytes / 2, an odd
\* trailing byte dropped: the samples the engine is asked to work on have an
\* index below lengthBytes / 2, none of their bytes lies at or beyond
\* lengthBytes, and no sample from that index on is changed by the call.
C15_SampleCountIsHalfLength ==
  [][(last'.op = "process" /\ last'.kind \in {"VAD", "FVAD", "AGC"}) =>
       /\ last'.lo = 0
       /\ last'.n = last'.arg \div SampleBytes
       /\ SampleBytes * (last'.lo + last'.n) <= last'.arg
       /\ last'.arg - SampleBytes * last'.n < SampleBytes
       /\ \A i \in BufIdx :
            i >= last'.n => mem'[last'.base][i] = mem[last'.base][i]
    ]_vars

\* C15 witness: an AGC process call with an odd length of one sample and a
\* byte has written the first sample, and the second sample, which holds the
\* odd byte, is as a call before left it
C15_Witness ==
  /\ last.op = "process" /\ last.kind = "AGC"
  /\ last.arg = SampleBytes + 1
  /\ last.n = 1
  /\ mem[last.base][0] = 0
  /\ mem[last.base][1] = 1

\* C11: the AGC level aside, all state belongs to one handle.  A create,
\* process or destroy on a VAD or ANS object leaves every other object's
\* lifecycle state and handle as they were, hands the engine no other open
\* handle's instance and leaves the instance of every other open handle, its
\* configuration included, as it was; it touches no level, the one variable
\* the wrappers hold, either.
C11_HandleStateIsPrivate ==
  [][(last'.op \in {"create", "process", "destroy"} /\ last'.kind \in {"VAD", "ANS"}) =>
       /\ \A t \in Slot \ {last'.slot} :
            /\ slots'[t] = slots[t]
            /\ soloLevel'[t] = soloLevel[t]
            /\ slots[t].st = "READY" =>
                 /\ heap'[slots[t].h] = heap[slots[t].h]
                 /\ last'.addr # slots[t].h
       /\ miclevel' = miclevel
    ]_vars

\* C11 witness: a VAD object has just been destroyed next to an open ANS
\* handle, whose engine is still live, initialised and configured
C11_Witness ==
  /\ last.op = "destroy" /\ last.kind = "VAD"
  /\ \E t \in Slot \ {last.slot} :
       /\ slots[t].st = "READY" /\ slots[t].kind = "ANS"
       /\ heap[slots[t].h].live
       /\ heap[slots[t].h].inited
       /\ heap[slots[t].h].configured

\* the objects with a process call in flight
InFlight == {s \in Slot : run[s].pc = "engine"}

\* the step is taken by a process call of a VAD or an ANS object s: it enters
\* or it returns
VadAnsStep(s) ==
  \/ run[s].pc = "idle" /\ run'[s].pc = "engine" /\ run'[s].kind \in {"VAD", "ANS"}
  \/ run[s].pc = "engine" /\ run'[s].pc = "idle" /\ run[s].kind \in {"VAD", "ANS"}

\* C12: two process calls in flight at once on distinct handles, each with its
\* own buffer, work on distinct engine instances and distinct frames.  Two AGC
\* calls nevertheless have one variable in common, the process-wide level,
\* which both read and write without any lock; a VAD or ANS call has no
\* variable in common with any other call, and no step of it changes the
\* level, the frame or the state of another call in flight.
C12_OnlyAgcCallsShareTheLevel ==
  /\ [](\A s \in InFlight : \A t \in InFlight \ {s} :
          /\ run[s].inst # run[t].inst
          /\ run[s].base # run[t].base
          /\ (run[s].kind = "AGC" /\ run[t].kind = "AGC") =>
               run[s].statics \cap run[t].statics = {"miclevel"}
          /\ (run[s].kind \in {"VAD", "ANS"}) =>
               run[s].statics \cap run[t].statics = {})
  /\ [][\A s \in Slot : VadAnsStep(s) =>
          /\ miclevel' = miclevel
          /\ \A t \in InFlight \ {s} :
               /\ run'[t] = run[t]
               /\ mem'[run[t].base] = mem[run[t].base]
               /\ heap'[run[t].inst] = heap[run[t].inst]
      ]_vars

\* C12 witness: the race.  An AGC call has just returned and has overwritten a
\* level other than the one it had read when it entered, that is a level the
\* call on the other AGC handle wrote in between; that other call, on its own
\* handle and buffer, has returned as well.
C12_Witness ==
  /\ last.op = "process" /\ last.kind = "AGC"
  /\ last.over # last.levelIn
  /\ last.over \in Levels
  /\ \E t \in Slot \ {last.slot} :
       /\ slots[t].kind = "AGC" /\ slots[t].st = "READY"
       /\ slots[t].h # last.addr
       /\ bufAddr[t] # last.base
       /\ soloLevel[t] = last.over

====
